---- MODULE Spec2Model ----
(***************************************************************************)
(* FastCalvoTrainer.run_my_task (src/fast_calvo_trainer.py): the Rodan     *)
(* wrapper that derives per-class ground-truth masks from RGBA annotation  *)
(* layers, builds the class -> output path mapping, calls                  *)
(* training.train_msae once and restores sys.stdout / sys.stderr.          *)
(*                                                                         *)
(* One worker process runs invocations of run_my_task one after the other. *)
(* Process-wide state (sys.stdout, sys.stderr, the handlers of the module  *)
(* level task logger) survives an invocation; the locals of run_my_task    *)
(* live from Enter to Leave.                                               *)
(*                                                                         *)
(* The five numeric settings (lines 110-114) are read and handed to the    *)
(* trainer unchanged; they take part in no decision and are not modelled.  *)
(***************************************************************************)
EXTENDS Integers, FiniteSets, Sequences, TLC

\* ------------------------------------------------------------------ bounds
\* Invocations of run_my_task in one worker process.
MaxInvocations == 2
\* Largest side of the (square) images in the disk of differently sized files.
MaxDim == 3

\* ------------------------------------------------------- program constants
\* Full opacity: the alpha value the masks test for (== 255).
Opaque == 255

\* Optional port names (input_port_types / output_port_types).
StaffIn == "rgba PNG - Staff Lines layer"
TextIn == "rgba PNG - Text"
StaffOut == "Staff Lines Model"
TextOut == "Text Model"
OptionalInputs == {StaffIn, TextIn}
OptionalOutputs == {StaffOut, TextOut}

\* ------------------------------------------------------------------ images
\* What cv2.imread gives for a file it cannot decode: None (no pixels).
None == [h |-> 0, w |-> 0, a |-> <<>>]
IsNone(img) == img.h = 0

Pixels(h, w) == (1..h) \X (1..w)
Shape(img) == <<img.h, img.w>>

\* The alpha channel (channel 3) of every 4-channel image of the given shapes
\* whose alpha values are among levels.
ImagesOf(shapes, levels) ==
    UNION {{[h |-> s[1], w |-> s[2], a |-> f] : f \in [Pixels(s[1], s[2]) -> levels]} : s \in shapes}

\* One-pixel layers with transparent, half-transparent and opaque alpha.
ShadeDisk == ImagesOf({<<1, 1>>}, {0, 128, Opaque})
\* Two-pixel layers, each pixel transparent or opaque, not painted all over.
PatternDisk == {i \in ImagesOf({<<1, 2>>}, {0, Opaque}) : \E p \in Pixels(1, 2) : i.a[p] = 0}
\* Fully opaque layers of every square size up to MaxDim.
ShapeDisk == ImagesOf({<<n, n>> : n \in 1..MaxDim}, {Opaque})
\* The file-system contents a worker process may run against.
Disks == {ShadeDisk, PatternDisk, ShapeDisk}

\* ------------------------------------------------------------------- numpy
\* layer[:, :, 3] == 255
AlphaMaskLoose(img) == [h |-> img.h, w |-> img.w, m |-> [p \in Pixels(img.h, img.w) |-> img.a[p] > 0]]
AlphaMask(img) == [h |-> img.h, w |-> img.w, m |-> [p \in Pixels(img.h, img.w) |-> img.a[p] = Opaque]]

NoMask == [h |-> 0, w |-> 0, m |-> <<>>]

Max(x, y) == IF x >= y THEN x ELSE y
\* numpy broadcasting of one axis: sizes agree, or one of them is 1.
AxisOk(x, y) == x = y \/ x = 1 \/ y = 1
Broadcastable(a, b) == AxisOk(a.h, b.h) /\ AxisOk(a.w, b.w)
\* The index along an axis of size n that a broadcast result index i reads.
Idx(i, n) == IF n = 1 THEN 1 ELSE i
At(x, p) == <<Idx(p[1], x.h), Idx(p[2], x.w)>>

logical_or(a, b) ==
    [h |-> Max(a.h, b.h), w |-> Max(a.w, b.w),
     m |-> [p \in Pixels(Max(a.h, b.h), Max(a.w, b.w)) |-> a.m[At(a, p)] \/ b.m[At(b, p)]]]
\* np.logical_and(a, b) for broadcastable operands.
logical_and(a, b) ==
    [h |-> Max(a.h, b.h), w |-> Max(a.w, b.w),
     m |-> [p \in Pixels(Max(a.h, b.h), Max(a.w, b.w)) |-> a.m[At(a, p)] /\ b.m[At(b, p)]]]

\* ------------------------------------------------------------------- state
VARIABLES
    disk,               \* the decodable image files of the file system
    pc,                 \* position of the worker inside run_my_task
    invocation,         \* number of invocations started in this process
    sys_stdout,         \* process-wide sys.stdout
    sys_stderr,         \* process-wide sys.stderr
    handlers,           \* handlers attached to the module-level logger
    entry_handlers,     \* the logger's handlers when the invocation was entered
    inputs,             \* optional keys present in the inputs argument
    outputs,            \* the outputs argument: Log File list length, optional keys
    oldouts,            \* local: (sys.stdout, sys.stderr) saved on entry
    input_image,        \* local: shape of the 3-channel base image, or None
    background,         \* local
    notes,              \* local
    regions,            \* local
    lines,              \* local
    text,               \* local
    regions_mask,       \* local
    gt,                 \* local: class name -> boolean mask
    output_models_path, \* local: class name -> resource path
    pending,            \* keys of the inputs loop not yet visited
    status,             \* local: what train_msae returned
    trainer_calls,      \* arguments of the train_msae calls of the running invocation
    n_calls,            \* number of train_msae calls of this invocation
    exc,                \* the exception in flight / propagated to the caller
    thrown,             \* the exception a step of this invocation raised
    retval              \* the value run_my_task returned

vars == <<disk, pc, invocation, sys_stdout, sys_stderr, handlers, entry_handlers, inputs,
          outputs, oldouts, input_image, background, notes, regions, lines, text,
          regions_mask, gt, output_models_path, pending, status, trainer_calls, n_calls,
          exc, thrown, retval>>

process_vars == <<disk, invocation, handlers, entry_handlers, inputs, outputs>>
stream_vars == <<sys_stdout, sys_stderr, oldouts>>
layer_vars == <<input_image, background, notes, regions, lines, text>>
plan_vars == <<regions_mask, gt, output_models_path, pending>>
call_vars == <<status, trainer_calls, n_calls, retval>>

NoImage == [h |-> 0, w |-> 0]
EmptyMap == [c \in {} |-> 0]
Stream(name) == [kind |-> name, owner |-> 0]
\* The LoggingProxy that redirect_stdouts_to_logger creates in invocation n.
LoggingProxy(n) == [kind |-> "LoggingProxy", owner |-> n]

Init ==
    /\ disk \in Disks
    /\ pc = "idle"
    /\ invocation = 0
    /\ sys_stdout = Stream("stdout")
    /\ sys_stderr = Stream("stderr")
    /\ handlers = {}
    /\ entry_handlers = {}
    /\ inputs = {}
    /\ outputs = [LogFile |-> 0, keys |-> {}]
    /\ oldouts = <<Stream("stdout"), Stream("stderr")>>
    /\ input_image = NoImage
    /\ background = None
    /\ notes = None
    /\ regions = None
    /\ lines = None
    /\ text = None
    /\ regions_mask = NoMask
    /\ gt = EmptyMap
    /\ output_models_path = EmptyMap
    /\ pending = {}
    /\ status = "unset"
    /\ trainer_calls = <<>>
    /\ n_calls = 0
    /\ exc = "none"
    /\ thrown = "none"
    /\ retval = "none"

\* An exception raised inside the try block: control goes to the finally clause.
RaiseInTry(e) ==
    /\ exc' = e
    /\ thrown' = e
    /\ pc' = "unwind"

\* cv2.imread of a resource path: any decodable file, or None.
Readable == disk \cup {None}
BaseImages == {[h |-> i.h, w |-> i.w] : i \in disk} \cup {NoImage}

\* ----------------------------------------------------------------- actions
\* The worker calls run_my_task(inputs, settings, outputs); line 85.
Enter ==
    /\ pc = "idle"
    /\ invocation < MaxInvocations
    /\ \E ins \in SUBSET OptionalInputs, outs \in SUBSET OptionalOutputs, n \in 0..1 :
        /\ inputs' = ins
        /\ outputs' = [LogFile |-> n, keys |-> outs]
    /\ invocation' = invocation + 1
    /\ entry_handlers' = handlers
    /\ oldouts' = <<sys_stdout, sys_stderr>>
    /\ status' = "unset"
    /\ n_calls' = 0
    /\ exc' = "none"
    /\ thrown' = "none"
    /\ retval' = "none"
    /\ pc' = "log"
    /\ UNCHANGED <<disk, handlers, sys_stdout, sys_stderr, layer_vars, plan_vars, trainer_calls>>

\* Lines 86-91: attach a FileHandler for the log file, outside the try block.
AttachLog ==
    /\ pc = "log"
    /\ \/ /\ outputs.LogFile = 0
          /\ pc' = "redirect"
          /\ UNCHANGED <<handlers, exc, thrown>>
       \/ /\ outputs.LogFile > 0
          /\ handlers' = handlers \cup {invocation}
          /\ pc' = "redirect"
          /\ UNCHANGED <<exc, thrown>>
       \/ \* logging.FileHandler cannot open the path: raised before the try,
          \* so the exception leaves run_my_task at once
          /\ outputs.LogFile > 0
          /\ exc' = "OSError"
          /\ thrown' = "OSError"
          /\ pc' = "idle"
          /\ UNCHANGED handlers
    /\ UNCHANGED <<disk, invocation, entry_handlers, inputs, outputs, stream_vars,
                   layer_vars, plan_vars, call_vars>>

\* Lines 93-94: redirect sys.stdout and sys.stderr to the logger.
Redirect ==
    /\ pc = "redirect"
    /\ \/ /\ sys_stdout' = LoggingProxy(invocation)
          /\ sys_stderr' = LoggingProxy(invocation)
          /\ pc' = "load"
          /\ UNCHANGED <<exc, thrown>>
       \/ /\ RaiseInTry("RedirectError")
          /\ UNCHANGED <<sys_stdout, sys_stderr>>
    /\ UNCHANGED <<process_vars, oldouts, layer_vars, plan_vars, call_vars>>

\* Lines 97-100: read the base image and the three required layers.
LoadPorts ==
    /\ pc = "load"
    /\ input_image' \in BaseImages
    /\ background' \in Readable
    /\ notes' \in Readable
    /\ regions' \in Readable
    /\ pc' = "compose"
    /\ UNCHANGED <<process_vars, stream_vars, lines, text, plan_vars, call_vars, exc, thrown>>

\* Lines 103-107: the ground truth of the required classes.
ComposeRequired ==
    /\ pc = "compose"
    /\ IF IsNone(regions) \/ IsNone(notes) \/ IsNone(background)
       THEN \* None[:, :, 3]
            /\ RaiseInTry("TypeError")
            /\ UNCHANGED <<regions_mask, gt>>
       ELSE IF ~Broadcastable(notes, regions)
       THEN \* np.logical_and: operands could not be broadcast together
            /\ RaiseInTry("ValueError")
            /\ UNCHANGED <<regions_mask, gt>>
       ELSE /\ regions_mask' = AlphaMask(regions)
            /\ gt' = ("symbols" :> logical_and(AlphaMask(notes), AlphaMask(regions)))
                     @@ ("background" :> AlphaMask(background))
            /\ pc' = "paths"
            /\ UNCHANGED <<exc, thrown>>
    /\ UNCHANGED <<process_vars, stream_vars, layer_vars, output_models_path, pending, call_vars>>

\* Lines 116-119: the output paths of the required classes; the loop over
\* inputs starts.
RequiredPaths ==
    /\ pc = "paths"
    /\ output_models_path' = ("background" :> "Background Model") @@ ("symbols" :> "Music Symbol Model")
    /\ pending' = inputs
    /\ pc' = "optional"
    /\ UNCHANGED <<process_vars, stream_vars, layer_vars, regions_mask, gt, call_vars, exc, thrown>>

\* Lines 125-126 and 129-130: the mask of an optional layer.
OptionalMask(layer, cls) ==
    IF IsNone(layer)
    THEN RaiseInTry("TypeError") /\ UNCHANGED gt
    ELSE IF ~Broadcastable(layer, regions_mask)
    THEN RaiseInTry("ValueError") /\ UNCHANGED gt
    ELSE /\ gt' = (cls :> logical_and(AlphaMask(layer), regions_mask)) @@ gt
         /\ pc' = "optional"
         /\ UNCHANGED <<exc, thrown>>

\* Lines 122-130: one iteration of `for k in inputs` over an optional key
\* (the iterations over the required keys do nothing).
OptionalLayer ==
    /\ pc = "optional"
    /\ \E k \in pending :
        /\ pending' = pending \ {k}
        /\ \E img \in Readable :
            \/ /\ k = StaffIn
               /\ lines' = img
               /\ OptionalMask(img, "staff")
               /\ UNCHANGED text
            \/ /\ k = TextIn
               /\ text' = img
               /\ OptionalMask(img, "text")
               /\ UNCHANGED lines
    /\ UNCHANGED <<process_vars, stream_vars, input_image, background, notes, regions,
                   regions_mask, output_models_path, call_vars>>

\* Lines 132-136: `for k in outputs` adds the optional output paths.
OptionalPaths ==
    /\ pc = "optional"
    /\ pending = {}
    /\ output_models_path' =
          [c \in {"staff" : k \in outputs.keys \cap {StaffOut}}
                 \cup {"text" : k \in outputs.keys \cap {TextOut}}
              |-> IF c = "staff" THEN StaffOut ELSE TextOut] @@ output_models_path
    /\ pc' = "train"
    /\ UNCHANGED <<process_vars, stream_vars, layer_vars, regions_mask, gt, pending,
                   call_vars, exc, thrown>>

\* A trainer call that is issued once more after a failure signal.
train_msae_retry ==
    /\ pc = "train"
    /\ n_calls < 2
    /\ trainer_calls' = Append(trainer_calls, [gt |-> gt, output_path |-> output_models_path])
    /\ n_calls' = n_calls + 1
    /\ \/ /\ status' = "True"
          /\ pc' = "return"
          /\ UNCHANGED <<exc, thrown>>
       \/ /\ status' = "False"
          /\ pc' = IF n_calls = 0 THEN "train" ELSE "return"
          /\ UNCHANGED <<exc, thrown>>
       \/ /\ RaiseInTry("TrainerError")
          /\ UNCHANGED status
    /\ UNCHANGED <<process_vars, stream_vars, layer_vars, plan_vars, retval>>

\* Lines 139-148: the call of training.train_msae, which returns True or
\* False, or raises.
train_msae ==
    /\ pc = "train"
    /\ trainer_calls' = Append(trainer_calls, [gt |-> gt, output_path |-> output_models_path])
    /\ n_calls' = n_calls + 1
    /\ \/ /\ status' \in {"True", "False"}
          /\ pc' = "return"
          /\ UNCHANGED <<exc, thrown>>
       \/ /\ RaiseInTry("TrainerError")
          /\ UNCHANGED status
    /\ UNCHANGED <<process_vars, stream_vars, layer_vars, plan_vars, retval>>

\* A finally clause that forgets the restore.
FinallyNoRestore ==
    /\ exc' = exc
    /\ UNCHANGED <<sys_stdout, sys_stderr>>

\* A finally clause that ends in a return, which discards the exception in
\* flight.
FinallySwallow ==
    /\ sys_stdout' = oldouts[1]
    /\ sys_stderr' = oldouts[2]
    /\ exc' = "none"

\* Lines 152-153: the finally clause restores the streams; an exception in
\* flight stays in flight.
Finally ==
    /\ sys_stdout' = oldouts[1]
    /\ sys_stderr' = oldouts[2]
    /\ exc' = exc

\* run_my_task leaves: the frame's image buffers and mappings (with them the
\* arguments the trainer was given) are dropped.
Leave ==
    /\ pc' = "idle"
    /\ input_image' = NoImage
    /\ background' = None
    /\ notes' = None
    /\ regions' = None
    /\ lines' = None
    /\ text' = None
    /\ regions_mask' = NoMask
    /\ gt' = EmptyMap
    /\ output_models_path' = EmptyMap
    /\ pending' = {}
    /\ trainer_calls' = <<>>

\* Lines 150-153: print the closing message and return True, through the
\* finally clause.
ReturnTrue ==
    /\ pc = "return"
    /\ retval' = "True"
    /\ Finally
    /\ Leave
    /\ UNCHANGED <<process_vars, oldouts, status, n_calls, thrown>>

\* Lines 152-153 with an exception in flight: the finally clause runs and the
\* exception goes on to the caller.
Unwind ==
    /\ pc = "unwind"
    /\ Finally
    /\ Leave
    /\ UNCHANGED <<process_vars, oldouts, status, n_calls, thrown, retval>>

Next ==
    \/ Enter
    \/ AttachLog
    \/ Redirect
    \/ LoadPorts
    \/ ComposeRequired
    \/ RequiredPaths
    \/ OptionalLayer
    \/ OptionalPaths
    \/ train_msae
    \/ ReturnTrue
    \/ Unwind

Spec == Init /\ [][Next]_vars

\* ------------------------------------------------------------ properties
Required == {"background", "symbols"}
\* The invocation is decided (the trainer has returned, or an exception is in
\* flight) and its locals are still there.
Decided == pc \in {"return", "unwind"}
\* The invocation is over and its result is with the caller.
Left == pc = "idle" /\ invocation > 0
\* The optional classes whose input layer and output slot are both present.
TwoSided ==
    {"staff" : k \in {x \in {StaffIn} : x \in inputs /\ StaffOut \in outputs.keys}}
    \cup {"text" : k \in {x \in {TextIn} : x \in inputs /\ TextOut \in outputs.keys}}
\* The selected-regions layer is fully opaque at the pixel that pixel p of a
\* mask reads (p itself when the layers have the same dimensions).
Selected(p) ==
    LET q == At(regions, p)
    IN  q \in Pixels(regions.h, regions.w) /\ regions.a[q] = Opaque
\* mask is the pixelwise (layer alpha == 255) AND (selection alpha == 255).
IsRestricted(mask, layer) ==
    /\ mask.h = Max(layer.h, regions.h)
    /\ mask.w = Max(layer.w, regions.w)
    /\ DOMAIN mask.m = Pixels(mask.h, mask.w)
    /\ \A p \in Pixels(mask.h, mask.w) :
          mask.m[p] <=> (layer.a[At(layer, p)] = Opaque /\ regions.a[At(regions, p)] = Opaque)
\* mask is the pixelwise (layer alpha == 255), with no selection applied.
IsThreshold(mask, layer) ==
    /\ mask.h = layer.h
    /\ mask.w = layer.w
    /\ DOMAIN mask.m = Pixels(layer.h, layer.w)
    /\ \A p \in Pixels(layer.h, layer.w) : mask.m[p] <=> (layer.a[p] = Opaque)
\* The dimensions of the layers the invocation has loaded.
LoadedShapes ==
    {Shape(x) : x \in {y \in {background, notes, regions, lines, text} : ~IsNone(y)}}
    \cup {<<x.h, x.w>> : x \in {y \in {input_image} : y.h > 0}}

\* C1: gt and output_path handed to the trainer both have exactly the keys
\* {background, symbols} plus the optional classes whose input layer and
\* output slot are both present.
C1_PlanKeysTwoSided ==
    \A i \in 1..Len(trainer_calls) :
        /\ DOMAIN trainer_calls[i].gt = Required \cup TwoSided
        /\ DOMAIN trainer_calls[i].output_path = Required \cup TwoSided

\* C2: once run_my_task has ended, by return or by exception, sys.stdout and
\* sys.stderr are what they were before it was entered (and so, after any
\* number of invocations, the streams the process started with).
C2_StreamsRestored ==
    Left =>
        /\ sys_stdout = oldouts[1] /\ sys_stderr = oldouts[2]
        /\ sys_stdout = Stream("stdout") /\ sys_stderr = Stream("stderr")
\* A second invocation ended by the trainer raising, after the redirection.
C2_Witness == Left /\ invocation > 1 /\ thrown = "TrainerError" /\ sys_stdout = Stream("stdout")

\* C3: when train_msae returns False, run_my_task does not return True.
C3_FailureSurfaced == (Left /\ status = "False") => retval # "True"

\* C4: when run_my_task has ended, the task logger has the handlers it had
\* on entry.
C4_HandlersRestored == Left => handlers = entry_handlers

\* C5: when two of the layers the invocation loaded (all of them decoded)
\* differ in dimensions, the invocation ends with a shape-mismatch error and
\* the trainer is never called.
C5_ShapeMismatchAborts ==
    (Decided /\ thrown # "TypeError" /\ Cardinality(LoadedShapes) > 1) =>
        (thrown = "ValueError" /\ n_calls = 0)

\* C6 as stated: every class of the ground truth, background included, is
\* true only at pixels where the selected-regions layer is fully opaque.
C6_AllClassesInsideSelection ==
    \A c \in DOMAIN gt : \A p \in Pixels(gt[c].h, gt[c].w) : gt[c].m[p] => Selected(p)
\* C6 amended: every class of the ground truth other than background is true
\* only at pixels where the selected-regions layer is fully opaque, in the
\* composed gt and in the gt handed to the trainer.
C6_RestrictedClassesInsideSelection ==
    /\ \A c \in DOMAIN gt \ {"background"} :
          \A p \in Pixels(gt[c].h, gt[c].w) : gt[c].m[p] => Selected(p)
    /\ \A i \in 1..Len(trainer_calls) : \A c \in DOMAIN trainer_calls[i].gt \ {"background"} :
          \A p \in Pixels(trainer_calls[i].gt[c].h, trainer_calls[i].gt[c].w) :
              trainer_calls[i].gt[c].m[p] => Selected(p)
\* The trainer got a staff mask with a true pixel, and an opaque symbols pixel
\* that lies outside the selection is false in gt.
C6_Witness ==
    /\ trainer_calls # <<>>
    /\ "staff" \in DOMAIN gt
    /\ \E p \in Pixels(gt["staff"].h, gt["staff"].w) : gt["staff"].m[p]
    /\ \E p \in Pixels(gt["symbols"].h, gt["symbols"].w) :
          notes.a[At(notes, p)] = Opaque /\ ~Selected(p) /\ ~gt["symbols"].m[p]

\* C7: when the FileHandler for the log file cannot be created, run_my_task
\* goes on without it and still calls the trainer.
C7_LogFailureProceeds == (Left /\ thrown = "OSError") => (exc = "none" /\ n_calls = 1)

\* C8: the masks handed to the trainer are the reference derivation: symbols
\* (and staff, text exactly when their layer is supplied) is layer alpha == 255
\* AND selection alpha == 255; background is background alpha == 255 alone.
C8_MasksEqualReference ==
    \A i \in 1..Len(trainer_calls) :
        LET g == trainer_calls[i].gt
        IN  /\ Required \subseteq DOMAIN g
            /\ IsRestricted(g["symbols"], notes)
            /\ IsThreshold(g["background"], background)
            /\ ("staff" \in DOMAIN g) <=> (StaffIn \in inputs)
            /\ ("text" \in DOMAIN g) <=> (TextIn \in inputs)
            /\ "staff" \in DOMAIN g => IsRestricted(g["staff"], lines)
            /\ "text" \in DOMAIN g => IsRestricted(g["text"], text)
\* The trainer got masks from a half-transparent symbols pixel inside the
\* selection and a half-transparent background pixel, with a text layer.
C8_Witness ==
    /\ trainer_calls # <<>>
    /\ "text" \in DOMAIN trainer_calls[1].gt
    /\ \E p \in Pixels(notes.h, notes.w) : notes.a[p] = 128 /\ Selected(p)
    /\ \E p \in Pixels(background.h, background.w) : background.a[p] = 128

C10_ExceptionPropagates ==
    (Left /\ thrown # "none") =>
        /\ exc = thrown
        /\ retval = "none"
        /\ sys_stdout = oldouts[1] /\ sys_stderr = oldouts[2]
\* A shape mismatch in mask composition has reached the caller.
C10_Witness == Left /\ thrown = "ValueError" /\ exc = "ValueError" /\ n_calls = 0

====
